---------------------------- MODULE Spec2Model ----------------------------
(***************************************************************************)
(* The NDEF record engine of nfcd (core/src/nfc_ndef_rec.c): the record    *)
(* parser nfc_ndef_rec_parse, the chain builder nfc_ndef_rec_new, the      *)
(* record factory nfc_ndef_rec_alloc, nfc_ndef_rec_initialize and the      *)
(* synthesizer nfc_ndef_rec_new_well_known.                                *)
(*                                                                         *)
(* A byte buffer is a sequence of bytes (0..255).  A GUtilData view is a   *)
(* record [bytes, size] whose bytes field is an offset into the buffer it  *)
(* points into, or NULL.  Objects live in heap, a sequence indexed by      *)
(* object id; the pointer 0 is the C NULL.                                 *)
(***************************************************************************)
EXTENDS Integers, Sequences, FiniteSets, TLC

VARIABLES
    pc,        \* position of the caller: "idle", "loop", "synth", "tlv",
               \* "done", "owned"
    call,      \* which entry point is running or has run
    block,     \* the bytes of the block handed to nfc_ndef_rec_new
    data,      \* the cursor `data` of nfc_ndef_rec_new (offset into block, size)
    ndef,      \* the NfcNdefData descriptor `ndef` of nfc_ndef_rec_new
    heap,      \* the NfcNdefRec objects allocated so far
    attempts,  \* per object: the variant decoder nfc_ndef_rec_alloc called for it
    first,     \* `first` of nfc_ndef_rec_new (the value it returns)
    last,      \* `last` of nfc_ndef_rec_new
    syn,       \* the record returned by nfc_ndef_rec_new_well_known (0: none)
    synarg,    \* the arguments nfc_ndef_rec_new_well_known was called with
    reads,     \* block indices read by nfc_ndef_rec_parse so far
    parsed,    \* descriptors of the records nfc_ndef_rec_parse has accepted
    own        \* reference counts, holders and frees of the objects of heap

vars == <<pc, call, block, data, ndef, heap, attempts, first, last, syn,
          synarg, reads, parsed, own>>

-----------------------------------------------------------------------------
(* Bounds of the model *)

\* Number of fragments concatenated to form an input block.
MaxPieces == 3

\* Payload and type sizes around the short-record limit: limit-1 .. limit+LongPad.
LongPad == 1

-----------------------------------------------------------------------------
(* Program constants *)

NFC_NDEF_HDR_MB == 128
NFC_NDEF_HDR_ME == 64
NFC_NDEF_HDR_CF == 32
NFC_NDEF_HDR_SR == 16
NFC_NDEF_HDR_IL == 8
NFC_NDEF_HDR_TNF_MASK == 7

NFC_NDEF_TNF_WELL_KNOWN == 1

\* One past the last defined TNF (Empty = 0 .. Unchanged = 6).
NFC_NDEF_TNF_MAX == 7

\* payload->size > 0xff selects the long form
ShortMax == 255

\* payload_length < 0x80000000: the high half of the limit, 0x8000
PayloadLimitHi == 32768

\* A guint is 32 bits wide; the model holds one as two 16-bit halves
\* [hi, lo], each below Half.
Half == 65536

NULL == -1

-----------------------------------------------------------------------------
(* Helpers *)

\* hdr & mask, for a single-bit mask
HasBit(hdr, mask) == (hdr \div mask) % 2 = 1

\* Bytes [off, off+size) of buffer mem (offsets are 0-based, as in C)
Slice(mem, off, size) == SubSeq(mem, off + 1, off + size)

NullData == [bytes |-> NULL, size |-> 0]

\* 32-bit unsigned arithmetic on halves
U32(n) == [hi |-> (n \div Half) % Half, lo |-> n % Half]
U32Bytes(b0, b1, b2, b3) == [hi |-> b0 * 256 + b1, lo |-> b2 * 256 + b3]
U32Add(u, n) ==
    LET lo == u.lo + n
    IN  [hi |-> (u.hi + lo \div Half) % Half, lo |-> lo % Half]
U32Le(u, n) == u.hi < n \div Half \/ (u.hi = n \div Half /\ u.lo <= n % Half)
U32Val(u) == u.hi * Half + u.lo

\* memset(&ndef, 0, sizeof(ndef))
ZeroNdef ==
    [rec |-> NullData, type_offset |-> 0, type_length |-> 0,
     id_length |-> 0, payload_length |-> U32(0)]

\* The interned type constants
nfc_ndef_rec_type_u == <<85>>
nfc_ndef_rec_type_t == <<84>>
nfc_ndef_rec_type_sp == <<83, 112>>
nfc_ndef_rec_type_hs == <<72, 115>>
nfc_ndef_rec_type_hr == <<72, 114>>
nfc_ndef_rec_type_hc == <<72, 99>>
nfc_ndef_rec_type_ac == <<97, 99>>
nfc_ndef_rec_type_cr == <<99, 114>>
nfc_ndef_rec_type_err == <<101, 114, 114>>

-----------------------------------------------------------------------------
(* nfc_ndef_rec_parse *)

\* The indices, relative to block->bytes, that nfc_ndef_rec_parse reads from a
\* block whose header byte is hdr (the block has at least 3 bytes).
ParseReadIdx(hdr) ==
    LET lenIdx == IF HasBit(hdr, NFC_NDEF_HDR_SR) THEN {2} ELSE 2..5
        idIdx  == IF HasBit(hdr, NFC_NDEF_HDR_IL)
                  THEN {IF HasBit(hdr, NFC_NDEF_HDR_SR) THEN 3 ELSE 6}
                  ELSE {}
    IN  {0, 1} \cup lenIdx \cup idIdx

\* block->bytes[i] for the cursor d over buffer mem.  A read past the end
\* of mem is outside the buffer: its value is whatever lies there (g[i]).
ByteAt(mem, d, g, i) ==
    IF d.bytes + i < Len(mem) THEN mem[d.bytes + i + 1] ELSE g[i]

\* Mutant of nfc_ndef_rec_parse: total_len < block->size for <=, so a record
\* that fills the block exactly is rejected.
nfc_ndef_rec_parse_StrictFit(mem, d, nd, g) ==
    IF d.size < 3
    THEN [ok |-> FALSE, ndef |-> nd, data |-> d, idx |-> {}]
    ELSE
      LET hdr  == ByteAt(mem, d, g, 0)
          tl   == ByteAt(mem, d, g, 1)
          sr   == HasBit(hdr, NFC_NDEF_HDR_SR)
          il   == HasBit(hdr, NFC_NDEF_HDR_IL)
          pl   == IF sr
                  THEN U32(ByteAt(mem, d, g, 2))
                  ELSE U32Bytes(ByteAt(mem, d, g, 2), ByteAt(mem, d, g, 3),
                                ByteAt(mem, d, g, 4), ByteAt(mem, d, g, 5))
          toff == IF sr THEN 3 ELSE 6
          idl  == IF il THEN ByteAt(mem, d, g, toff) ELSE 0
          toff2 == IF il THEN toff + 1 ELSE toff
          t1   == U32Add(U32(1), 1 + tl)
          t2   == IF sr THEN U32Add(U32Add(t1, 1), pl.lo)
                        ELSE U32Add([hi |-> (t1.hi + pl.hi) % Half, lo |-> t1.lo],
                                    4 + pl.lo)
          total_len == IF il THEN U32Add(t2, 1 + idl) ELSE t2
          total == U32Val(total_len)
          filled == [rec |-> NullData, type_offset |-> toff2,
                     type_length |-> tl, id_length |-> idl,
                     payload_length |-> pl]
      IN  IF /\ pl.hi < PayloadLimitHi
             /\ total_len # U32(d.size)
             /\ U32Le(total_len, d.size)
          THEN [ok |-> TRUE,
                ndef |-> [filled EXCEPT !.rec = [bytes |-> d.bytes, size |-> total]],
                data |-> [bytes |-> d.bytes + total, size |-> d.size - total],
                idx |-> ParseReadIdx(hdr)]
          ELSE [ok |-> FALSE, ndef |-> filled, data |-> d,
                idx |-> ParseReadIdx(hdr)]

\* nfc_ndef_rec_parse(block = d, ndef = nd) on buffer mem; g gives the value of
\* each out-of-bounds read.  Result: the return value, the descriptor and the
\* cursor afterwards, and the relative indices read.
nfc_ndef_rec_parse(mem, d, nd, g) ==
    IF d.size < 3
    THEN [ok |-> FALSE, ndef |-> nd, data |-> d, idx |-> {}]
    ELSE
      LET hdr  == ByteAt(mem, d, g, 0)
          tl   == ByteAt(mem, d, g, 1)
          sr   == HasBit(hdr, NFC_NDEF_HDR_SR)
          il   == HasBit(hdr, NFC_NDEF_HDR_IL)
          pl   == IF sr
                  THEN U32(ByteAt(mem, d, g, 2))
                  ELSE U32Bytes(ByteAt(mem, d, g, 2), ByteAt(mem, d, g, 3),
                                ByteAt(mem, d, g, 4), ByteAt(mem, d, g, 5))
          toff == IF sr THEN 3 ELSE 6
          idl  == IF il THEN ByteAt(mem, d, g, toff) ELSE 0
          toff2 == IF il THEN toff + 1 ELSE toff
          t1   == U32Add(U32(1), 1 + tl)
          t2   == IF sr THEN U32Add(U32Add(t1, 1), pl.lo)
                        ELSE U32Add([hi |-> (t1.hi + pl.hi) % Half, lo |-> t1.lo],
                                    4 + pl.lo)
          total_len == IF il THEN U32Add(t2, 1 + idl) ELSE t2
          total == U32Val(total_len)
          filled == [rec |-> NullData, type_offset |-> toff2,
                     type_length |-> tl, id_length |-> idl,
                     payload_length |-> pl]
      IN  IF pl.hi < PayloadLimitHi /\ U32Le(total_len, d.size)
          THEN [ok |-> TRUE,
                ndef |-> [filled EXCEPT !.rec = [bytes |-> d.bytes, size |-> total]],
                data |-> [bytes |-> d.bytes + total, size |-> d.size - total],
                idx |-> ParseReadIdx(hdr)]
          ELSE [ok |-> FALSE, ndef |-> filled, data |-> d,
                idx |-> ParseReadIdx(hdr)]

-----------------------------------------------------------------------------
(* Records *)

\* g_object_new(gtype, NULL): a zero-filled instance
NewObject(gtype) ==
    [gtype |-> gtype, tnf |-> 0, rtd |-> "Unknown", flags |-> {},
     raw |-> <<>>, type |-> NullData, id |-> NullData, payload |-> NullData,
     next |-> 0]

\* Mutant of nfc_ndef_rec_initialize: the payload view starts right after the
\* type, the id length left out of the offset.
nfc_ndef_rec_initialize_PayloadAtId(self, rtd, nd, mem) ==
    LET hdr == mem[nd.rec.bytes + 1]
        tnf == hdr % (NFC_NDEF_HDR_TNF_MASK + 1)
    IN  [self EXCEPT
           !.tnf = IF tnf < NFC_NDEF_TNF_MAX THEN tnf ELSE @,
           !.flags = @ \cup (IF HasBit(hdr, NFC_NDEF_HDR_MB) THEN {"First"} ELSE {})
                       \cup (IF HasBit(hdr, NFC_NDEF_HDR_ME) THEN {"Last"} ELSE {}),
           !.rtd = rtd,
           !.raw = Slice(mem, nd.rec.bytes, nd.rec.size),
           !.type = [bytes |-> nd.type_offset, size |-> nd.type_length],
           !.id = IF nd.id_length > 0
                  THEN [bytes |-> nd.type_offset + nd.type_length,
                        size |-> nd.id_length]
                  ELSE @,
           !.payload = IF nd.payload_length # U32(0)
                       THEN [bytes |-> nd.type_offset + nd.type_length,
                             size |-> U32Val(nd.payload_length)]
                       ELSE @]

\* Mutant of nfc_ndef_rec_initialize: the ME bit is tested with the MB mask,
\* so Last follows MB.
nfc_ndef_rec_initialize_LastFromMB(self, rtd, nd, mem) ==
    LET hdr == mem[nd.rec.bytes + 1]
        tnf == hdr % (NFC_NDEF_HDR_TNF_MASK + 1)
    IN  [self EXCEPT
           !.tnf = IF tnf < NFC_NDEF_TNF_MAX THEN tnf ELSE @,
           !.flags = @ \cup (IF HasBit(hdr, NFC_NDEF_HDR_MB) THEN {"First"} ELSE {})
                       \cup (IF HasBit(hdr, NFC_NDEF_HDR_MB) THEN {"Last"} ELSE {}),
           !.rtd = rtd,
           !.raw = Slice(mem, nd.rec.bytes, nd.rec.size),
           !.type = [bytes |-> nd.type_offset, size |-> nd.type_length],
           !.id = IF nd.id_length > 0
                  THEN [bytes |-> nd.type_offset + nd.type_length,
                        size |-> nd.id_length]
                  ELSE @,
           !.payload = IF nd.payload_length # U32(0)
                       THEN [bytes |-> nd.type_offset + nd.type_length
                                       + nd.id_length,
                             size |-> U32Val(nd.payload_length)]
                       ELSE @]

\* nfc_ndef_rec_initialize(self, rtd, ndef); mem is the buffer ndef->rec.bytes
\* points into.  View offsets of the result are relative to its own raw copy.
nfc_ndef_rec_initialize(self, rtd, nd, mem) ==
    LET hdr == mem[nd.rec.bytes + 1]
        tnf == hdr % (NFC_NDEF_HDR_TNF_MASK + 1)
    IN  [self EXCEPT
           !.tnf = IF tnf < NFC_NDEF_TNF_MAX THEN tnf ELSE @,
           !.flags = @ \cup (IF HasBit(hdr, NFC_NDEF_HDR_MB) THEN {"First"} ELSE {})
                       \cup (IF HasBit(hdr, NFC_NDEF_HDR_ME) THEN {"Last"} ELSE {}),
           !.rtd = rtd,
           !.raw = Slice(mem, nd.rec.bytes, nd.rec.size),
           !.type = [bytes |-> nd.type_offset, size |-> nd.type_length],
           !.id = IF nd.id_length > 0
                  THEN [bytes |-> nd.type_offset + nd.type_length,
                        size |-> nd.id_length]
                  ELSE @,
           !.payload = IF nd.payload_length # U32(0)
                       THEN [bytes |-> nd.type_offset + nd.type_length
                                       + nd.id_length,
                             size |-> U32Val(nd.payload_length)]
                       ELSE @]

\* nfc_ndef_type(ndef, &type): the bytes of the TYPE field (empty when the
\* length is zero)
nfc_ndef_type(nd, mem) ==
    IF nd.type_length # 0
    THEN Slice(mem, nd.rec.bytes + nd.type_offset, nd.type_length)
    ELSE <<>>

\* nfc_ndef_payload(ndef, &payload): the bytes of the PAYLOAD field
nfc_ndef_payload(nd, mem) ==
    IF nd.payload_length # U32(0)
    THEN Slice(mem, nd.rec.bytes + nd.type_offset + nd.type_length
                    + nd.id_length, U32Val(nd.payload_length))
    ELSE <<>>

\* nfc_ndef_rec_u_new_from_data: the URI decoder.  It fails (NULL) on an empty
\* payload, and otherwise yields a URI record.
nfc_ndef_rec_u_new_from_data(nd, mem) ==
    IF nfc_ndef_payload(nd, mem) = <<>>
    THEN [ok |-> FALSE, obj |-> NewObject("NfcNdefRecU")]
    ELSE [ok |-> TRUE,
          obj |-> nfc_ndef_rec_initialize(NewObject("NfcNdefRecU"), "URI", nd, mem)]

\* nfc_ndef_rec_t_new_from_data: the Text decoder.  Status byte: bit 6 is
\* reserved and must be clear, bits 5..0 give the language code length L, and
\* 1 + L bytes must fit the payload.
nfc_ndef_rec_t_new_from_data(nd, mem) ==
    LET payload == nfc_ndef_payload(nd, mem)
        good == /\ payload # <<>>
                /\ ~HasBit(payload[1], 64)
                /\ 1 + (payload[1] % 64) <= Len(payload)
    IN  IF good
        THEN [ok |-> TRUE,
              obj |-> nfc_ndef_rec_initialize(NewObject("NfcNdefRecT"), "Text", nd, mem)]
        ELSE [ok |-> FALSE, obj |-> NewObject("NfcNdefRecT")]

\* nfc_ndef_rec_alloc(ndef): the record factory.  Result: the record and the
\* variant decoder it called ("none", "U" or "T").
nfc_ndef_rec_alloc(nd, mem) ==
    IF nd.rec.size # 0
    THEN LET type == nfc_ndef_type(nd, mem)
             generic == nfc_ndef_rec_initialize(NewObject("NfcNdefRec"),
                                                "Unknown", nd, mem)
         IN  IF type = nfc_ndef_rec_type_u
             THEN LET u == nfc_ndef_rec_u_new_from_data(nd, mem)
                  IN  [obj |-> IF u.ok THEN u.obj ELSE generic, tried |-> "U"]
             ELSE IF type = nfc_ndef_rec_type_t
             THEN LET t == nfc_ndef_rec_t_new_from_data(nd, mem)
                  IN  [obj |-> IF t.ok THEN t.obj ELSE generic, tried |-> "T"]
             ELSE [obj |-> generic, tried |-> "none"]
    ELSE [obj |-> NewObject("NfcNdefRec"), tried |-> "none"]

\* Mutant of WellKnownHead: the four payload length bytes in little-endian
\* order.
WellKnownHead_LittleEndian(type, payload) ==
    LET hdr == NFC_NDEF_HDR_MB + NFC_NDEF_HDR_ME + NFC_NDEF_TNF_WELL_KNOWN
        type_len == Len(type) % 256
        size == Len(payload)
    IN  IF size > ShortMax
        THEN <<hdr, type_len,
               size % 256, (size \div 256) % 256,
               (size \div 65536) % 256, (size \div 16777216) % 256>>
        ELSE <<hdr + NFC_NDEF_HDR_SR, type_len, size % 256>>

\* Mutant of WellKnownHead: the long form already at 0xff (>= for >).
WellKnownHead_LongAtLimit(type, payload) ==
    LET hdr == NFC_NDEF_HDR_MB + NFC_NDEF_HDR_ME + NFC_NDEF_TNF_WELL_KNOWN
        type_len == Len(type) % 256
        size == Len(payload)
    IN  IF size >= ShortMax
        THEN <<hdr, type_len,
               (size \div 16777216) % 256, (size \div 65536) % 256,
               (size \div 256) % 256, size % 256>>
        ELSE <<hdr + NFC_NDEF_HDR_SR, type_len, size % 256>>

\* The header, TYPE LENGTH and PAYLOAD LENGTH bytes that
\* nfc_ndef_rec_new_well_known appends for (type, payload)
WellKnownHead(type, payload) ==
    LET hdr == NFC_NDEF_HDR_MB + NFC_NDEF_HDR_ME + NFC_NDEF_TNF_WELL_KNOWN
        type_len == Len(type) % 256
        size == Len(payload)
    IN  IF size > ShortMax
        THEN <<hdr, type_len,
               (size \div 16777216) % 256, (size \div 65536) % 256,
               (size \div 256) % 256, size % 256>>
        ELSE <<hdr + NFC_NDEF_HDR_SR, type_len, size % 256>>

\* nfc_ndef_rec_new_well_known(gtype, rtd, type, payload)
nfc_ndef_rec_new_well_known(gtype, rtd, type, payload) ==
    LET head == WellKnownHead(type, payload)
        buf  == head \o type \o payload
        nd   == [rec |-> [bytes |-> 0, size |-> Len(buf)],
                 type_offset |-> Len(head),
                 type_length |-> Len(type),
                 id_length |-> 0,
                 payload_length |-> U32(Len(payload))]
    IN  nfc_ndef_rec_initialize(NewObject(gtype), rtd, nd, buf)

-----------------------------------------------------------------------------
(* Inputs *)

\* Fragments of wire data: well-formed records of every header shape, and
\* garbage.  A block is a concatenation of at most MaxPieces fragments, so a
\* fragment also appears truncated by the end of the block or followed by
\* bytes that its length fields swallow.
Pieces ==
    { <<145, 1, 0, 120>>,              \* MB|SR, WellKnown, type "x"
      <<81, 1, 1, 85, 1>>,             \* ME|SR, WellKnown, type "U", payload 01
      <<18, 1, 1, 85, 1>>,             \* SR, MediaType, type "U", payload 01
      <<49, 0, 0>>,                    \* CF|SR, WellKnown (a chunk)
      <<17, 2, 0, 83, 112>>,           \* SR, WellKnown, type "Sp"
      <<25, 1, 1, 1, 84, 73, 2>>,      \* SR|IL, WellKnown, type "T", id "I", payload 02
      <<23, 0, 0>>,                    \* SR, TNF=7 (reserved)
      <<1, 0, 0, 0, 0, 1, 170>>,       \* long form, WellKnown, payload AA
      <<0>>,                           \* one stray byte
      <<0, 0, 0>>,                     \* long form cut after 3 bytes
      <<25, 0, 0>>,                    \* SR|IL cut before the id length
      <<9, 0, 0, 0, 0, 0>>,            \* long form with IL cut before the id length
      <<1, 0, 128, 0, 0, 0>>,          \* long form, payload length 2^31
      <<1, 0, 255, 255, 255, 255>> }   \* long form, payload length 2^32 - 1

RECURSIVE Concats(_)
Concats(n) ==
    IF n = 0 THEN {<<>>}
    ELSE LET prev == Concats(n - 1)
         IN  prev \cup {p \o q : p \in prev, q \in Pieces}

\* The blocks handed to nfc_ndef_rec_new
Inputs == Concats(MaxPieces)

\* Values an out-of-bounds read may yield
OobVals == {0, 255}

\* n bytes of filler
Fill(n) == [i \in 1..n |-> 97 + (i % 2)]

\* Arguments of nfc_ndef_rec_new_well_known
SynRtds == {"Unknown", "URI", "Text", "SmartPoster"}
SynTypes ==
    {<<>>, <<85>>, <<84>>, <<120>>, <<83, 112>>}
      \cup {Fill(n) : n \in (ShortMax - 1)..(ShortMax + LongPad)}
SynPayloads ==
    {<<>>, <<1>>, <<0, 65>>, <<2, 101>>, <<64>>}
      \cup {Fill(n) : n \in (ShortMax - 1)..(ShortMax + LongPad)}

-----------------------------------------------------------------------------
(* State machine *)

Init ==
    /\ pc = "idle"
    /\ call = "none"
    /\ block = <<>>
    /\ data = NullData
    /\ ndef = ZeroNdef
    /\ heap = <<>>
    /\ attempts = <<>>
    /\ first = 0
    /\ last = 0
    /\ syn = 0
    /\ synarg = [rtd |-> "Unknown", type |-> <<>>, payload |-> <<>>]
    /\ reads = {}
    /\ parsed = <<>>
    /\ own = <<>>

\* nfc_ndef_rec_new(NULL): nothing is read, nothing is returned
NewNull ==
    /\ pc = "idle"
    /\ call' = "new_null"
    /\ first' = 0
    /\ pc' = "done"
    /\ UNCHANGED <<own, block, data, ndef, heap, attempts, last, syn, synarg,
                   reads, parsed>>

\* Mutant of Enter: no special case for the empty block, which falls through
\* the loop and returns NULL.
Enter_EmptyIsNull(b) ==
    /\ block' = b
    /\ ndef' = ZeroNdef
    /\ reads' = {}
    /\ parsed' = <<>>
    /\ IF Len(b) = 0
       THEN /\ first' = 0
            /\ last' = 0
            /\ data' = NullData
            /\ pc' = "done"
            /\ UNCHANGED <<heap, attempts>>
       ELSE /\ data' = [bytes |-> 0, size |-> Len(b)]
            /\ first' = 0
            /\ last' = 0
            /\ pc' = "loop"
            /\ UNCHANGED <<heap, attempts>>

\* nfc_ndef_rec_new(block) up to the loop: the empty block is answered at once
\* with one empty record, any other block enters the loop with data = *block.
Enter(b) ==
    /\ block' = b
    /\ ndef' = ZeroNdef
    /\ reads' = {}
    /\ parsed' = <<>>
    /\ IF Len(b) = 0
       THEN LET a == nfc_ndef_rec_alloc(ZeroNdef, b)
            IN  /\ heap' = Append(heap, a.obj)
                /\ attempts' = Append(attempts, a.tried)
                /\ first' = Len(heap) + 1
                /\ last' = 0
                /\ data' = NullData
                /\ pc' = "done"
       ELSE /\ data' = [bytes |-> 0, size |-> Len(b)]
            /\ first' = 0
            /\ last' = 0
            /\ pc' = "loop"
            /\ UNCHANGED <<heap, attempts>>

NewBlock ==
    /\ pc = "idle"
    /\ \E b \in Inputs : Enter(b)
    /\ call' = "new"
    /\ UNCHANGED <<own, syn, synarg>>

\* The out-of-bounds indices of the parse at cursor d
OobIdx(mem, d) ==
    IF d.size < 3 THEN {}
    ELSE {i \in ParseReadIdx(mem[d.bytes + 1]) : i >= d.size}

\* Mutant of Link: the CF test left out, a chunked record is linked like any
\* other.
Link_AdmitChunked(nd) ==
    LET a  == nfc_ndef_rec_alloc(nd, block)
        id == Len(heap) + 1
    IN  /\ parsed' = Append(parsed, [rec |-> nd.rec, obj |-> id])
        /\ attempts' = Append(attempts, a.tried)
        /\ IF last # 0
           THEN /\ heap' = Append([heap EXCEPT ![last].next = id], a.obj)
                /\ last' = id
                /\ first' = first
           ELSE /\ heap' = Append(heap, a.obj)
                /\ first' = id
                /\ last' = id

\* The loop body after a successful parse: a chunked record is dropped, any
\* other is allocated and linked after `last`.
Link(nd) ==
    IF HasBit(block[nd.rec.bytes + 1], NFC_NDEF_HDR_CF)
    THEN /\ parsed' = Append(parsed, [rec |-> nd.rec, obj |-> 0])
         /\ UNCHANGED <<heap, attempts, first, last>>
    ELSE LET a  == nfc_ndef_rec_alloc(nd, block)
             id == Len(heap) + 1
         IN  /\ parsed' = Append(parsed, [rec |-> nd.rec, obj |-> id])
             /\ attempts' = Append(attempts, a.tried)
             /\ IF last # 0
                THEN /\ heap' = Append([heap EXCEPT ![last].next = id], a.obj)
                     /\ last' = id
                     /\ first' = first
                ELSE /\ heap' = Append(heap, a.obj)
                     /\ first' = id
                     /\ last' = id

\* Mutant of LoopAccept: the loop ends after a record whose ME bit is set.
LoopAccept_StopAtME ==
    /\ pc = "loop"
    /\ data.size > 0
    /\ \E g \in [OobIdx(block, data) -> OobVals] :
         LET r == nfc_ndef_rec_parse(block, data, ndef, g)
         IN  /\ r.ok
             /\ data' = r.data
             /\ ndef' = r.ndef
             /\ reads' = reads \cup {data.bytes + i : i \in r.idx}
             /\ Link(r.ndef)
    /\ pc' = IF HasBit(block[data.bytes + 1], NFC_NDEF_HDR_ME)
             THEN "done" ELSE "loop"
    /\ UNCHANGED <<own, call, block, syn, synarg>>

\* One iteration of the while loop whose parse succeeds
LoopAccept ==
    /\ pc = "loop"
    /\ data.size > 0
    /\ \E g \in [OobIdx(block, data) -> OobVals] :
         LET r == nfc_ndef_rec_parse(block, data, ndef, g)
         IN  /\ r.ok
             /\ data' = r.data
             /\ ndef' = r.ndef
             /\ reads' = reads \cup {data.bytes + i : i \in r.idx}
             /\ Link(r.ndef)
    /\ UNCHANGED <<own, pc, call, block, syn, synarg>>

\* Mutant of LoopReject: a failed parse returns NULL instead of the chain
\* built so far.
LoopReject_DropChain ==
    /\ pc = "loop"
    /\ data.size > 0
    /\ \E g \in [OobIdx(block, data) -> OobVals] :
         LET r == nfc_ndef_rec_parse(block, data, ndef, g)
         IN  /\ ~r.ok
             /\ data' = r.data
             /\ ndef' = r.ndef
             /\ reads' = reads \cup {data.bytes + i : i \in r.idx}
    /\ pc' = "done"
    /\ first' = 0
    /\ UNCHANGED <<own, call, block, heap, attempts, last, syn, synarg, parsed>>

\* The parse fails: the loop ends and `first` is returned
LoopReject ==
    /\ pc = "loop"
    /\ data.size > 0
    /\ \E g \in [OobIdx(block, data) -> OobVals] :
         LET r == nfc_ndef_rec_parse(block, data, ndef, g)
         IN  /\ ~r.ok
             /\ data' = r.data
             /\ ndef' = r.ndef
             /\ reads' = reads \cup {data.bytes + i : i \in r.idx}
    /\ pc' = "done"
    /\ UNCHANGED <<own, call, block, heap, attempts, first, last, syn, synarg, parsed>>

\* The block is exhausted: the loop ends and `first` is returned
LoopEnd ==
    /\ pc = "loop"
    /\ data.size = 0
    /\ pc' = "done"
    /\ UNCHANGED <<own, call, block, data, ndef, heap, attempts, first, last, syn,
                   synarg, reads, parsed>>

\* nfc_ndef_rec_new_well_known(gtype, rtd, type, payload)
NewWellKnown ==
    /\ pc = "idle"
    /\ \E rtd \in SynRtds, type \in SynTypes, payload \in SynPayloads :
         /\ heap' = Append(heap,
                nfc_ndef_rec_new_well_known("NfcNdefRec", rtd, type, payload))
         /\ synarg' = [rtd |-> rtd, type |-> type, payload |-> payload]
    /\ attempts' = Append(attempts, "none")
    /\ syn' = Len(heap) + 1
    /\ call' = "well_known"
    /\ pc' = "synth"
    /\ UNCHANGED <<own, block, data, ndef, first, last, reads, parsed>>

\* nfc_ndef_rec_new(&rec->raw) for the synthesized record
NewFromSynth ==
    /\ pc = "synth"
    /\ Enter(heap[syn].raw)
    /\ call' = "new_synth"
    /\ UNCHANGED <<own, syn, synarg>>

\* The ids of the records reachable from p over next, in order
RECURSIVE ChainFrom(_, _)
ChainFrom(h, p) == IF p = 0 THEN <<>> ELSE <<p>> \o ChainFrom(h, h[p].next)

-----------------------------------------------------------------------------
(* nfc_ndef_rec_new_tlv *)

TLV_NULL == 0
TLV_NDEF_MESSAGE == 3
TLV_TERMINATOR == 254

\* How many TLV fragments a stream is made of
MaxTlvs == 3

\* The 0xFF length byte announces a two-byte length
TlvLongMark == 255

\* nfc_tlv_next(buf, value) on buffer mem: the type of the next block (0 when
\* there is none), its value and the cursor afterwards.  NULL blocks are
\* skipped, the terminator and a block that does not fit end the walk.
RECURSIVE nfc_tlv_next(_, _)
nfc_tlv_next(mem, buf) ==
    LET stop == [type |-> 0, value |-> NullData, buf |-> buf]
    IN  IF buf.size = 0 THEN stop
        ELSE LET t == mem[buf.bytes + 1]
             IN  IF t = TLV_TERMINATOR THEN stop
                 ELSE IF t = TLV_NULL
                 THEN nfc_tlv_next(mem, [bytes |-> buf.bytes + 1,
                                         size |-> buf.size - 1])
                 ELSE IF buf.size < 2 THEN stop
                 ELSE IF mem[buf.bytes + 2] = TlvLongMark /\ buf.size < 4 THEN stop
                 ELSE
                   LET long == mem[buf.bytes + 2] = TlvLongMark
                       hdr  == IF long THEN 4 ELSE 2
                       len  == IF long
                               THEN mem[buf.bytes + 3] * 256 + mem[buf.bytes + 4]
                               ELSE mem[buf.bytes + 2]
                   IN  IF hdr + len > buf.size THEN stop
                       ELSE [type |-> t,
                             value |-> [bytes |-> buf.bytes + hdr, size |-> len],
                             buf |-> [bytes |-> buf.bytes + hdr + len,
                                      size |-> buf.size - hdr - len]]

\* The while loop of nfc_ndef_rec_new run to its end on the cursor d of buffer
\* mem, allocating into heap h (attempts at): the heap afterwards and the head
\* of the chain built (0 for NULL).
RECURSIVE nfc_ndef_rec_new_loop(_, _, _, _, _, _, _)
nfc_ndef_rec_new_loop(h, at, mem, d, f, l, g) ==
    LET r == nfc_ndef_rec_parse(mem, d, ZeroNdef, g)
    IN  IF d.size > 0 /\ r.ok
        THEN IF HasBit(mem[r.ndef.rec.bytes + 1], NFC_NDEF_HDR_CF)
             THEN nfc_ndef_rec_new_loop(h, at, mem, r.data, f, l, g)
             ELSE LET a  == nfc_ndef_rec_alloc(r.ndef, mem)
                      id == Len(h) + 1
                  IN  IF l # 0
                      THEN nfc_ndef_rec_new_loop(
                               Append([h EXCEPT ![l].next = id], a.obj),
                               Append(at, a.tried), mem, r.data, f, id, g)
                      ELSE nfc_ndef_rec_new_loop(
                               Append(h, a.obj),
                               Append(at, a.tried), mem, r.data, id, id, g)
        ELSE [heap |-> h, attempts |-> at, first |-> f]

\* nfc_ndef_rec_new(block = d) as one call
nfc_ndef_rec_new(h, at, mem, d, g) ==
    IF d.size = 0
    THEN LET a == nfc_ndef_rec_alloc(ZeroNdef, mem)
         IN  [heap |-> Append(h, a.obj), attempts |-> Append(at, a.tried),
              first |-> Len(h) + 1]
    ELSE nfc_ndef_rec_new_loop(h, at, mem, d, 0, 0, g)

\* TLV fragments: a NULL block and a block of another type, NDEF messages
\* (one record under the three-byte length form, two records, bytes that are
\* no record), and the terminator.
TlvPieces ==
    {<<0, 1, 1, 7>>,
     <<3, 255, 0, 4, 145, 1, 0, 120>>,
     <<3, 8, 17, 2, 0, 83, 112, 80, 0, 0>>,
     <<3, 3, 0, 0, 0>>,
     <<254>>}

RECURSIVE TlvConcats(_)
TlvConcats(n) ==
    IF n = 0 THEN {<<>>}
    ELSE LET s == TlvConcats(n - 1)
         IN  s \cup {a \o p : a \in s, p \in TlvPieces}

TlvInputs == TlvConcats(MaxTlvs)

\* The values of the reads nfc_ndef_rec_new can make past the end of the TLV
\* buffer when handed the value v: none when v ends 4 bytes or more before
\* the end of mem.
TlvOob(mem, v) ==
    IF v.bytes + v.size + 3 >= Len(mem)
    THEN [2..6 -> OobVals]
    ELSE {[i \in 2..6 |-> 0]}

\* Mutant of TlvLink: `last` is set to the head of the new chain and not
\* walked to its end.
TlvLink_NoWalk(h, f, l, rec) ==
    IF rec = 0 THEN [heap |-> h, first |-> f, last |-> l]
    ELSE [heap |-> IF l # 0 THEN [h EXCEPT ![l].next = rec] ELSE h,
          first |-> IF l # 0 THEN f ELSE rec,
          last |-> rec]

\* The chain rec returned for one NDEF block is hooked after `last` (or
\* becomes `first`), and `last` moves to the end of that chain.
TlvLink(h, f, l, rec) ==
    IF rec = 0 THEN [heap |-> h, first |-> f, last |-> l]
    ELSE LET h2    == IF l # 0 THEN [h EXCEPT ![l].next = rec] ELSE h
             chain == ChainFrom(h2, rec)
         IN  [heap |-> h2,
              first |-> IF l # 0 THEN f ELSE rec,
              last |-> chain[Len(chain)]]

\* nfc_ndef_rec_new_tlv(NULL)
NewTlvNull ==
    /\ pc = "idle"
    /\ call' = "tlv_null"
    /\ first' = 0
    /\ pc' = "done"
    /\ UNCHANGED <<own, block, data, ndef, heap, attempts, last, syn, synarg,
                   reads, parsed>>

\* nfc_ndef_rec_new_tlv(tlv) up to the loop: buf = *tlv
NewTlv ==
    /\ pc = "idle"
    /\ \E t \in TlvInputs :
         /\ block' = t
         /\ data' = [bytes |-> 0, size |-> Len(t)]
    /\ first' = 0
    /\ last' = 0
    /\ call' = "tlv"
    /\ pc' = "tlv"
    /\ UNCHANGED <<own, ndef, heap, attempts, syn, synarg, reads, parsed>>

\* One iteration on a TLV_NDEF_MESSAGE block
TlvNdef ==
    /\ pc = "tlv"
    /\ LET n == nfc_tlv_next(block, data)
       IN  /\ n.type = TLV_NDEF_MESSAGE
           /\ data' = n.buf
           /\ \E g \in TlvOob(block, n.value) :
                LET r == nfc_ndef_rec_new(heap, attempts, block, n.value, g)
                    k == TlvLink(r.heap, first, last, r.first)
                IN  /\ heap' = k.heap
                    /\ attempts' = r.attempts
                    /\ first' = k.first
                    /\ last' = k.last
    /\ UNCHANGED <<own, pc, call, block, ndef, syn, synarg, reads, parsed>>

\* One iteration on a block of any other type
TlvOther ==
    /\ pc = "tlv"
    /\ LET n == nfc_tlv_next(block, data)
       IN  /\ n.type > 0
           /\ n.type # TLV_NDEF_MESSAGE
           /\ data' = n.buf
    /\ UNCHANGED <<own, pc, call, block, ndef, heap, attempts, first, last, syn,
                   synarg, reads, parsed>>

\* nfc_tlv_next returns 0: the loop ends and `first` is returned
TlvEnd ==
    /\ pc = "tlv"
    /\ nfc_tlv_next(block, data).type = 0
    /\ pc' = "done"
    /\ UNCHANGED <<own, call, block, data, ndef, heap, attempts, first, last, syn,
                   synarg, reads, parsed>>

Next ==
    \/ NewNull
    \/ NewBlock
    \/ LoopAccept
    \/ LoopReject
    \/ LoopEnd
    \/ NewWellKnown
    \/ NewFromSynth
    \/ NewTlvNull
    \/ NewTlv
    \/ TlvNdef
    \/ TlvOther
    \/ TlvEnd

Spec == Init /\ [][Next]_vars

-----------------------------------------------------------------------------
(* nfc_ndef_rec_ref, nfc_ndef_rec_unref, nfc_ndef_rec_finalize *)

\* How many ref/unref calls the callers make
MaxCalls == 4

\* How many records the chain under the calls has
MaxChain == 3

\* A block of n whole records (SR, TNF Empty, no type, id or payload; the
\* last with ME)
RECURSIVE RefBlock(_)
RefBlock(n) ==
    IF n = 1 THEN <<80, 0, 0>> ELSE <<16, 0, 0>> \o RefBlock(n - 1)

RefInputs == {RefBlock(n) : n \in 1..MaxChain}

\* The ownership of the objects of heap h as the constructors leave it: every
\* object carries the one reference g_object_new gave it, which belongs to
\* its predecessor's next or, for a head, to the caller.
FreshOwn(h) ==
    [rc    |-> [i \in 1..Len(h) |-> 1],
     held  |-> [i \in 1..Len(h) |->
                  IF \E j \in 1..Len(h) : h[j].next = i THEN 0 ELSE 1],
     freed |-> [i \in 1..Len(h) |-> 0],
     uaf   |-> FALSE,
     stray |-> FALSE,
     calls |-> 0,
     op    |-> "none",
     arg   |-> 0,
     ret   |-> 0,
     prev  |-> <<>>]

\* What the ref/unref calls can change, as one value
OwnState(o) == <<o.rc, o.held, o.freed, o.uaf>>

\* The outcomes of g_object_unref on an object that has been freed
FreedOutcomes == {"ignored", "refree"}

\* Mutant of nfc_ndef_rec_finalize: the successor is not released.
nfc_ndef_rec_finalize_KeepNext(o, p) ==
    [own |-> [o EXCEPT !.freed[p] = @ + 1], release |-> 0]

\* nfc_ndef_rec_finalize(p): g_free(priv->data), then the record to hand to
\* nfc_ndef_rec_unref (self->next)
nfc_ndef_rec_finalize(o, p) ==
    [own |-> [o EXCEPT !.freed[p] = @ + 1], release |-> heap[p].next]

\* nfc_ndef_rec_unref(p): NULL is left alone; otherwise g_object_unref drops
\* one reference and finalizes the object when none is left.  On an object
\* already freed the call touches freed memory; ub is what comes of it.
RECURSIVE nfc_ndef_rec_unref(_, _, _)
nfc_ndef_rec_unref(o, p, ub) ==
    IF p = 0 THEN o
    ELSE IF o.rc[p] = 0
    THEN [o EXCEPT !.uaf = TRUE,
                   !.freed[p] = IF ub = "refree" THEN @ + 1 ELSE @]
    ELSE LET o1 == [o EXCEPT !.rc[p] = @ - 1]
         IN  IF o1.rc[p] = 0
             THEN LET f == nfc_ndef_rec_finalize(o1, p)
                  IN  nfc_ndef_rec_unref(f.own, f.release, ub)
             ELSE o1

\* nfc_ndef_rec_ref(p): NULL is left alone; otherwise g_object_ref adds one
\* reference.  On an object already freed the call touches freed memory.
nfc_ndef_rec_ref(o, p) ==
    IF p = 0 THEN o
    ELSE IF o.rc[p] = 0 THEN [o EXCEPT !.uaf = TRUE]
    ELSE [o EXCEPT !.rc[p] = @ + 1]

\* A chain has been built and handed to the caller
InitRef ==
    /\ pc = "owned"
    /\ call = "ref"
    /\ \E b \in RefInputs :
         LET r == nfc_ndef_rec_new(<<>>, <<>>, b,
                                   [bytes |-> 0, size |-> Len(b)],
                                   [i \in 2..6 |-> 0])
         IN  /\ block = b
             /\ heap = r.heap
             /\ attempts = r.attempts
             /\ first = r.first
             /\ own = FreshOwn(r.heap)
    /\ data = NullData
    /\ ndef = ZeroNdef
    /\ last = 0
    /\ syn = 0
    /\ synarg = [rtd |-> "Unknown", type |-> <<>>, payload |-> <<>>]
    /\ reads = {}
    /\ parsed = <<>>

\* Some holder of a pointer calls nfc_ndef_rec_ref(p); the reference is the
\* caller's.  p = 0 is NULL.
RecRef ==
    /\ pc = "owned"
    /\ own.calls < MaxCalls
    /\ \E p \in 0..Len(heap) :
         LET o == nfc_ndef_rec_ref(own, p)
         IN  own' = [o EXCEPT
                       !.held  = IF p # 0 /\ own.rc[p] > 0
                                 THEN [@ EXCEPT ![p] = @ + 1] ELSE @,
                       !.stray = @ \/ (p # 0 /\ own.rc[p] = 0),
                       !.calls = @ + 1,
                       !.op    = "ref",
                       !.arg   = p,
                       !.ret   = p,
                       !.prev  = OwnState(own)]
    /\ UNCHANGED <<pc, call, block, data, ndef, heap, attempts, first, last,
                   syn, synarg, reads, parsed>>

\* Some holder of a pointer calls nfc_ndef_rec_unref(p).  The call is stray
\* when the caller holds no reference on p to give up.
RecUnref ==
    /\ pc = "owned"
    /\ own.calls < MaxCalls
    /\ \E p \in 0..Len(heap), ub \in FreedOutcomes :
         LET o == nfc_ndef_rec_unref(own, p, ub)
         IN  own' = [o EXCEPT
                       !.held  = IF p # 0 /\ own.held[p] > 0
                                 THEN [@ EXCEPT ![p] = @ - 1] ELSE @,
                       !.stray = @ \/ (p # 0 /\ own.held[p] = 0),
                       !.calls = @ + 1,
                       !.op    = "unref",
                       !.arg   = p,
                       !.ret   = 0,
                       !.prev  = OwnState(own)]
    /\ UNCHANGED <<pc, call, block, data, ndef, heap, attempts, first, last,
                   syn, synarg, reads, parsed>>

NextRef ==
    \/ RecRef
    \/ RecUnref

SpecRef == InitRef /\ [][NextRef]_vars

-----------------------------------------------------------------------------
(* Vocabulary of the properties *)

\* The chain nfc_ndef_rec_new returns
Result == ChainFrom(heap, first)

\* The bytes a view of record r covers
ViewBytes(r, v) == IF v.size = 0 THEN <<>> ELSE Slice(r.raw, v.bytes, v.size)

\* The records that nfc_ndef_rec_new built from the block (the synthesized
\* record, if any, is not one of them)
Built == {i \in 1..Len(heap) : i # syn /\ heap[i].raw # <<>>}

\* The NDEF wire format, read off the layout table: the fields of a record
\* that starts at offset o of b, as far as the bytes present allow.
WireSR(b, o) == HasBit(b[o + 1], NFC_NDEF_HDR_SR)
WireIL(b, o) == HasBit(b[o + 1], NFC_NDEF_HDR_IL)
WireCF(b, o) == HasBit(b[o + 1], NFC_NDEF_HDR_CF)
WireFixed(b, o) ==
    2 + (IF WireSR(b, o) THEN 1 ELSE 4) + (IF WireIL(b, o) THEN 1 ELSE 0)
WireTypeLen(b, o) == b[o + 2]
\* A payload length of Half or more exceeds every block of the model; it is
\* reported as Half.
WirePayloadLen(b, o) ==
    IF WireSR(b, o) THEN b[o + 3]
    ELSE IF b[o + 3] = 0 /\ b[o + 4] = 0 THEN b[o + 5] * 256 + b[o + 6]
    ELSE Half
WireIdLen(b, o) == IF WireIL(b, o) THEN b[o + WireFixed(b, o)] ELSE 0
WireTotal(b, o) ==
    WireFixed(b, o) + WireTypeLen(b, o) + WireIdLen(b, o) + WirePayloadLen(b, o)

\* A whole record lies at offset o of b
WellFormedAt(b, o) ==
    /\ Len(b) - o >= 3
    /\ Len(b) - o >= WireFixed(b, o)
    /\ WireTotal(b, o) <= Len(b) - o

\* The offsets of the well-formed records of b from offset o on, up to the
\* first place where no whole record lies (or the end of b)
RECURSIVE WireRecords(_, _)
WireRecords(b, o) ==
    IF o < Len(b) /\ WellFormedAt(b, o)
    THEN <<o>> \o WireRecords(b, o + WireTotal(b, o))
    ELSE <<>>

\* Where the well-formed prefix of b ends
WireEnd(b) ==
    LET w == WireRecords(b, 0)
    IN  IF w = <<>> THEN 0 ELSE w[Len(w)] + WireTotal(b, w[Len(w)])

\* The offsets of s whose record does not have the CF bit set
RECURSIVE SelectOffsets(_, _)
SelectOffsets(b, s) ==
    IF s = <<>> THEN <<>>
    ELSE IF WireCF(b, Head(s)) THEN SelectOffsets(b, Tail(s))
    ELSE <<Head(s)>> \o SelectOffsets(b, Tail(s))

\* The wire bytes of the non-chunked well-formed records of b, in wire order
Admitted(b) ==
    LET keep == SelectOffsets(b, WireRecords(b, 0))
    IN  [k \in 1..Len(keep) |-> Slice(b, keep[k], WireTotal(b, keep[k]))]

\* The raw bytes of the records of the returned chain, in chain order
ResultRaws == [k \in 1..Len(Result) |-> heap[Result[k]].raw]

Returned == pc = "done" /\ call = "new" /\ block # <<>>

-----------------------------------------------------------------------------
(* Properties *)

\* C1: bounds safety of nfc_ndef_rec_parse under nfc_ndef_rec_new: every
\* block index the parser has read lies in [0, |block|).
C1_ReadsInBounds == \A i \in reads : 0 <= i /\ i < Len(block)

\* C2: prefix preservation on error: when the block is k >= 0 well-formed
\* non-chunked records followed by bytes at which no whole record lies, the
\* returned chain is exactly those k records, in wire order (nothing for
\* k = 0).
C2_PrefixPreserved ==
    (/\ Returned
     /\ WireEnd(block) < Len(block)
     /\ \A k \in 1..Len(WireRecords(block, 0)) :
            ~WireCF(block, WireRecords(block, 0)[k]))
    => /\ Len(Result) = Len(WireRecords(block, 0))
       /\ ResultRaws = Admitted(block)
       /\ (WireRecords(block, 0) = <<>> => first = 0)

\* C2 witness: two records were returned although the block ends in garbage
C2_Witness ==
    /\ Returned
    /\ WireEnd(block) < Len(block)
    /\ \A k \in 1..Len(WireRecords(block, 0)) :
            ~WireCF(block, WireRecords(block, 0)[k])
    /\ Len(Result) = 2

\* C3: a record with the CF bit set is never admitted: no record of the heap
\* has CF in its header, every descriptor the parser accepted for a CF record
\* was dropped (and only those), the cursor moved past each accepted record's
\* full wire length, and the returned chain links the remaining records
\* directly, in wire order.
C3_ChunkedDropped ==
    /\ \A i \in Built : ~HasBit(heap[i].raw[1], NFC_NDEF_HDR_CF)
    /\ call = "new" =>
        /\ \A k \in 1..Len(parsed) :
             /\ parsed[k].rec.bytes = WireRecords(block, 0)[k]
             /\ parsed[k].rec.size = WireTotal(block, parsed[k].rec.bytes)
             /\ (parsed[k].obj = 0) <=> WireCF(block, parsed[k].rec.bytes)
        /\ parsed # <<>> =>
             data.bytes = parsed[Len(parsed)].rec.bytes
                          + parsed[Len(parsed)].rec.size
    /\ Returned => ResultRaws = Admitted(block)

\* C3 witness: a chunked record between two others was dropped and its
\* neighbours are linked
C3_Witness ==
    /\ Returned
    /\ Len(parsed) = 3
    /\ parsed[1].obj # 0 /\ parsed[2].obj = 0 /\ parsed[3].obj # 0
    /\ heap[parsed[1].obj].next = parsed[3].obj

\* C4: for a record whose header TNF is not WellKnown the factory produces a
\* generic record with rtd Unknown and calls neither the URI nor the Text
\* decoder.
C4_DispatchOnlyWellKnown ==
    \A i \in Built :
        heap[i].raw[1] % 8 # NFC_NDEF_TNF_WELL_KNOWN
        => /\ heap[i].rtd = "Unknown"
           /\ attempts[i] = "none"

\* The RTD that the dispatch table of the record factory gives a type
TableRtd(type) ==
    IF type = nfc_ndef_rec_type_sp THEN "SmartPoster"
    ELSE IF type = nfc_ndef_rec_type_hs THEN "HandoverSelect"
    ELSE IF type = nfc_ndef_rec_type_hr THEN "HandoverRequest"
    ELSE IF type = nfc_ndef_rec_type_hc THEN "HandoverCarrier"
    ELSE IF type = nfc_ndef_rec_type_ac THEN "AlternativeCarrier"
    ELSE IF type = nfc_ndef_rec_type_cr THEN "CollisionResolution"
    ELSE IF type = nfc_ndef_rec_type_err THEN "Error"
    ELSE "Unknown"

\* C5: a WellKnown record whose type is "Sp", "Hs", "Hr", "Hc", "ac", "cr" or
\* "err" gets the corresponding RTD.
C5_TableTypesTagged ==
    \A i \in Built :
        (/\ heap[i].raw[1] % 8 = NFC_NDEF_TNF_WELL_KNOWN
         /\ TableRtd(ViewBytes(heap[i], heap[i].type)) # "Unknown")
        => heap[i].rtd = TableRtd(ViewBytes(heap[i], heap[i].type))

\* C6: tnf is the low 3 bits of the header when they are 0..6, and Unknown (5)
\* when they are 7.
C6_TnfIngest ==
    \A i \in Built :
        heap[i].tnf = IF heap[i].raw[1] % 8 <= 6 THEN heap[i].raw[1] % 8 ELSE 5

\* The RTD the record factory, as it is, gives a record of this type and
\* payload: URI or Text when the variant decoder accepts it, else Unknown
DispatchRtd(type, payload) ==
    IF type = nfc_ndef_rec_type_u /\ payload # <<>> THEN "URI"
    ELSE IF /\ type = nfc_ndef_rec_type_t
            /\ payload # <<>>
            /\ ~HasBit(payload[1], 64)
            /\ 1 + (payload[1] % 64) <= Len(payload)
    THEN "Text"
    ELSE "Unknown"

\* The synthesized record has been parsed back
RoundTripDone == pc = "done" /\ call = "new_synth"

\* Records p and o agree on tnf, flags, raw, type, id, payload and next
SameButRtd(p, o) ==
    /\ p.tnf = o.tnf
    /\ p.flags = o.flags
    /\ p.raw = o.raw
    /\ p.type = o.type /\ ViewBytes(p, p.type) = ViewBytes(o, o.type)
    /\ p.id = o.id
    /\ p.payload = o.payload
    /\ ViewBytes(p, p.payload) = ViewBytes(o, o.payload)
    /\ p.next = o.next

\* C7 as stated: for every (rtd, type, payload), parsing the raw bytes of the
\* synthesized record yields a single record equal to it on tnf, rtd, flags,
\* raw, type, id, payload and next = none.
C7_RoundTripEvery ==
    RoundTripDone =>
        /\ Len(Result) = 1
        /\ SameButRtd(heap[Result[1]], heap[syn])
        /\ heap[Result[1]].rtd = heap[syn].rtd
        /\ heap[Result[1]].next = 0

\* C7 amended: when the type fits the one-byte TYPE LENGTH field, parsing the
\* raw bytes of the synthesized record yields a single record equal to it on
\* tnf, flags, raw, type, id, payload and next = none; the rtd is equal
\* exactly when the given rtd is the one the factory's dispatch assigns.
C7_RoundTrip ==
    (RoundTripDone /\ Len(synarg.type) <= 255) =>
        /\ Len(Result) = 1
        /\ SameButRtd(heap[Result[1]], heap[syn])
        /\ heap[Result[1]].next = 0
        /\ heap[Result[1]].rtd = DispatchRtd(synarg.type, synarg.payload)
        /\ heap[Result[1]].rtd = heap[syn].rtd
             <=> synarg.rtd = DispatchRtd(synarg.type, synarg.payload)

\* C7 witness: a long-form record with a non-empty type came back equal
C7_Witness ==
    /\ RoundTripDone
    /\ Len(synarg.payload) > 255
    /\ synarg.type = nfc_ndef_rec_type_sp
    /\ Len(Result) = 1
    /\ heap[Result[1]].rtd = heap[syn].rtd
    /\ heap[Result[1]].raw = heap[syn].raw

\* C8: the wire form of the synthesized record: short form iff the payload
\* has at most 0xFF bytes; header MB | ME | (SR iff short) | WellKnown with IL
\* and CF clear; then the type length (its low 8 bits), the payload length
\* (1 byte, or 4 bytes big-endian), the type and the payload; the record has
\* tnf WellKnown, flags {First, Last}, an empty id and type/payload views
\* equal to the arguments.
C8_WireForm ==
    syn # 0 =>
      LET r == heap[syn]
          type == synarg.type
          payload == synarg.payload
          short == Len(payload) <= 255
          hdr == r.raw[1]
          lenBytes == IF short THEN 1 ELSE 4
      IN  /\ hdr = 128 + 64 + (IF short THEN 16 ELSE 0) + 1
          /\ r.raw[2] = Len(type) % 256
          /\ IF short
             THEN r.raw[3] = Len(payload)
             ELSE r.raw[3] * 16777216 + r.raw[4] * 65536
                  + r.raw[5] * 256 + r.raw[6] = Len(payload)
          /\ Len(r.raw) = 2 + lenBytes + Len(type) + Len(payload)
          /\ Slice(r.raw, 2 + lenBytes, Len(type)) = type
          /\ Slice(r.raw, 2 + lenBytes + Len(type), Len(payload)) = payload
          /\ r.tnf = 1
          /\ r.rtd = synarg.rtd
          /\ r.flags = {"First", "Last"}
          /\ r.id.size = 0
          /\ ViewBytes(r, r.type) = type
          /\ ViewBytes(r, r.payload) = payload

\* C8 witness: a record synthesized at the limit: a payload of exactly 0xFF
\* bytes, in short form, with a non-empty type
C8_Witness ==
    /\ syn # 0
    /\ Len(synarg.payload) = 255
    /\ HasBit(heap[syn].raw[1], NFC_NDEF_HDR_SR)
    /\ synarg.type # <<>>

\* C9: layout of every record built from a block: raw is exactly header, type
\* length, payload length field, optional id length, then type, id, payload,
\* with the lengths encoded in raw; the views are consecutive in that order,
\* inside raw, and the payload ends where raw ends.
C9_Layout ==
    \A i \in Built :
      LET r == heap[i]
          fixed == WireFixed(r.raw, 0)
          tl == WireTypeLen(r.raw, 0)
          idl == WireIdLen(r.raw, 0)
          pl == WirePayloadLen(r.raw, 0)
      IN  /\ Len(r.raw) = fixed + tl + idl + pl
          /\ r.type.size = tl /\ r.id.size = idl /\ r.payload.size = pl
          /\ r.type.bytes = fixed
          /\ r.type.bytes + r.type.size <= Len(r.raw)
          /\ idl > 0 => /\ r.id.bytes = r.type.bytes + r.type.size
                        /\ r.id.bytes + r.id.size <= Len(r.raw)
          /\ pl > 0 => /\ r.payload.bytes = fixed + tl + idl
                       /\ r.payload.bytes + r.payload.size = Len(r.raw)

\* C9 witness: a returned record with a non-empty type, id and payload
C9_Witness ==
    /\ Returned
    /\ \E i \in Built :
         heap[i].type.size > 0 /\ heap[i].id.size > 0 /\ heap[i].payload.size > 0

\* The block is one well-formed wire message: whole records only, none
\* chunked, MB on the first record only and ME on the last only
WellFramed(b) ==
    LET w == WireRecords(b, 0)
    IN  /\ w # <<>>
        /\ WireEnd(b) = Len(b)
        /\ \A k \in 1..Len(w) :
             /\ ~WireCF(b, w[k])
             /\ HasBit(b[w[k] + 1], NFC_NDEF_HDR_MB) <=> k = 1
             /\ HasBit(b[w[k] + 1], NFC_NDEF_HDR_ME) <=> k = Len(w)

\* C10: the flags of every record are the image of its header bits (First iff
\* MB, Last iff ME); so a chain of two or more records parsed from a
\* well-formed message has First on its first record only and Last on its
\* last record only.
C10_ChainFlags ==
    /\ \A i \in 1..Len(heap) :
         heap[i].raw # <<>> =>
           heap[i].flags =
             (IF HasBit(heap[i].raw[1], NFC_NDEF_HDR_MB) THEN {"First"} ELSE {})
             \cup
             (IF HasBit(heap[i].raw[1], NFC_NDEF_HDR_ME) THEN {"Last"} ELSE {})
    /\ (Returned /\ WellFramed(block) /\ Len(Result) >= 2) =>
         /\ heap[Result[1]].flags = {"First"}
         /\ heap[Result[Len(Result)]].flags = {"Last"}
         /\ \A k \in 2..(Len(Result) - 1) : heap[Result[k]].flags = {}

\* C10 witness: a three-record chain from a well-formed message
C10_Witness ==
    Returned /\ WellFramed(block) /\ Len(Result) = 3

\* C11: nfc_ndef_rec_new on a block of size 0 returns exactly one record, with
\* tnf Empty, rtd Unknown, no flags, empty raw, type, id and payload, and no
\* successor; on a NULL block it returns nothing.
C11_EmptyBlock ==
    /\ (pc = "done" /\ call = "new" /\ block = <<>>) =>
         /\ Len(Result) = 1
         /\ heap[first].tnf = 0
         /\ heap[first].rtd = "Unknown"
         /\ heap[first].flags = {}
         /\ heap[first].raw = <<>>
         /\ heap[first].type = [bytes |-> NULL, size |-> 0]
         /\ heap[first].id = [bytes |-> NULL, size |-> 0]
         /\ heap[first].payload = [bytes |-> NULL, size |-> 0]
         /\ heap[first].next = 0
    /\ call = "new_null" => (pc = "done" /\ first = 0 /\ heap = <<>>)

\* C11 witness: the empty block has been answered with a record
C11_Witness ==
    pc = "done" /\ call = "new" /\ block = <<>> /\ first # 0

\* The blocks nfc_tlv_next yields from the cursor buf of mem on, in order,
\* each with its type and the bytes of its value
RECURSIVE TlvBlocks(_, _)
TlvBlocks(mem, buf) ==
    LET n == nfc_tlv_next(mem, buf)
    IN  IF n.type = 0 THEN <<>>
        ELSE <<[type |-> n.type,
                value |-> Slice(mem, n.value.bytes, n.value.size)]>>
             \o TlvBlocks(mem, n.buf)

\* The records of the chain nfc_ndef_rec_new produces for the block b taken
\* on its own, in chain order, links left out
ChainOf(b, g) ==
    LET r   == nfc_ndef_rec_new(<<>>, <<>>, b, [bytes |-> 0, size |-> Len(b)], g)
        ids == ChainFrom(r.heap, r.first)
    IN  [k \in 1..Len(ids) |-> [r.heap[ids[k]] EXCEPT !.next = 0]]

\* The chains of the TLV_NDEF_MESSAGE blocks of s, one after the other
RECURSIVE TlvChains(_, _)
TlvChains(s, g) ==
    IF s = <<>> THEN <<>>
    ELSE (IF Head(s).type = TLV_NDEF_MESSAGE
          THEN ChainOf(Head(s).value, g) ELSE <<>>)
         \o TlvChains(Tail(s), g)

TlvReturned == pc = "done" /\ call = "tlv"

\* C12: the chain nfc_ndef_rec_new_tlv returns is the concatenation, in TLV
\* order, of the chains nfc_ndef_rec_new produces for the values of the
\* blocks of type TLV_NDEF_MESSAGE that the walker yields; other blocks and
\* NDEF blocks that yield nothing contribute no record and leave the chains
\* around them linked (every record built is on the one chain); the result is
\* NULL iff no NDEF block yields a record.
C12_TlvConcatenation ==
    /\ TlvReturned =>
         LET blocks == TlvBlocks(block, [bytes |-> 0, size |-> Len(block)])
             got    == [k \in 1..Len(Result) |->
                          [heap[Result[k]] EXCEPT !.next = 0]]
         IN  /\ Result = [k \in 1..Len(heap) |-> k]
             /\ \A g \in [2..6 -> OobVals] :
                  LET want == TlvChains(blocks, g)
                  IN  /\ got = want
                      /\ (first = 0) <=> (want = <<>>)
    /\ call = "tlv_null" => (pc = "done" /\ first = 0 /\ heap = <<>>)

\* C12 witness: a two-record chain and a one-record chain joined across a
\* block of another type
C12_Witness ==
    /\ TlvReturned
    /\ LET blocks == TlvBlocks(block, [bytes |-> 0, size |-> Len(block)])
       IN  /\ Len(blocks) = 3
           /\ blocks[1].type = TLV_NDEF_MESSAGE
           /\ blocks[2].type # TLV_NDEF_MESSAGE
           /\ blocks[3].type = TLV_NDEF_MESSAGE
    /\ Len(Result) = 3

\* The flags-and-lengths overhead of the record the parser has just read at
\* the cursor d of buffer mem into descriptor nd: everything but the payload
C13_Overhead(mem, d, nd) ==
    WireFixed(mem, d.bytes) + nd.type_length + nd.id_length

\* C13: nfc_ndef_rec_parse on a block of at least 3 bytes succeeds exactly
\* when payload_length < 2^31 and the total record length is at most the block
\* size; the 32-bit total does not wrap when payload_length < 2^31 (so a
\* payload length of exactly 2^31 or more is rejected whatever the wrapped
\* total is); on success rec is the first total bytes of the block and the
\* cursor advances by total >= 3; on failure the cursor is unchanged.
C13_ParseAcceptance ==
    [][(pc = "loop" /\ data.size >= 3) =>
         LET pl    == ndef'.payload_length
             over  == C13_Overhead(block, data, ndef')
             carry == (pl.lo + over) \div Half
             lo    == (pl.lo + over) % Half
             fits  == pl.hi + carry = 0 /\ lo <= data.size
         IN  /\ (pc' = "loop") <=> (pl.hi < PayloadLimitHi /\ fits)
             /\ pl.hi < PayloadLimitHi => pl.hi + carry < Half
             /\ pc' = "loop" =>
                  /\ lo >= 3
                  /\ ndef'.rec = [bytes |-> data.bytes, size |-> lo]
                  /\ data' = [bytes |-> data.bytes + lo,
                              size |-> data.size - lo]
             /\ pc' # "loop" => data' = data]_vars

\* C13 witness: a record whose payload length is exactly 2^31 has been
\* rejected with the cursor still at its start
C13_Witness ==
    /\ pc = "done"
    /\ call = "new"
    /\ ndef.payload_length = [hi |-> PayloadLimitHi, lo |-> 0]
    /\ data.size >= 6
    /\ block[data.bytes + 1] = 1

\* Record i is the successor of a record that has not been finalized
HasLivePred(i) ==
    \E j \in 1..Len(heap) : heap[j].next = i /\ own.rc[j] > 0

\* The ownership statement of C14 on the current state: no freed record has
\* been touched; a record's raw buffer has been freed once if its count is
\* zero and not at all otherwise; a record's count is the references callers
\* hold on it plus the one of its predecessor while that is alive; a record a
\* caller holds is alive together with its whole tail; once the head is gone
\* every record up to the first one a caller holds is gone too; and a call on
\* NULL has changed nothing and returned NULL.
OwnershipSafe ==
    /\ ~own.uaf
    /\ \A i \in 1..Len(heap) :
         /\ own.freed[i] = (IF own.rc[i] = 0 THEN 1 ELSE 0)
         /\ own.rc[i] = own.held[i] + (IF HasLivePred(i) THEN 1 ELSE 0)
         /\ own.held[i] > 0 =>
              \A k \in 1..Len(ChainFrom(heap, i)) :
                own.rc[ChainFrom(heap, i)[k]] > 0
    /\ (first # 0 /\ own.rc[first] = 0) =>
         \A k \in 1..Len(Result) :
           (\A j \in 1..k : own.held[Result[j]] = 0) => own.rc[Result[k]] = 0
    /\ (own.op # "none" /\ own.arg = 0) =>
         (OwnState(own) = own.prev /\ own.ret = 0)

\* C14 as stated: the ownership statement holds after any sequence of
\* nfc_ndef_rec_ref / nfc_ndef_rec_unref calls.
C14_AnySequence == OwnershipSafe

\* C14, amended: the ownership statement holds after any sequence of
\* nfc_ndef_rec_ref / nfc_ndef_rec_unref calls in which every call is made on
\* NULL or on a record that has not been freed, and every unref gives up a
\* reference its caller holds (the one the constructor returned for the head,
\* or one taken with nfc_ndef_rec_ref).
C14_Ownership == ~own.stray => OwnershipSafe

\* C14 witness: the head of a three-record chain has been dropped while a
\* caller holds the second record: the head is freed, the second and third
\* records are alive
C14_Witness ==
    /\ pc = "owned"
    /\ ~own.stray
    /\ Len(heap) = 3
    /\ own.rc[first] = 0
    /\ own.freed[first] = 1
    /\ own.held[heap[first].next] = 1
    /\ own.rc[heap[heap[first].next].next] = 1

\* The objects of the accepted records that were not dropped, in parse order
RECURSIVE LinkedOf(_)
LinkedOf(s) ==
    IF s = <<>> THEN <<>>
    ELSE IF Head(s).obj = 0 THEN LinkedOf(Tail(s))
    ELSE <<Head(s).obj>> \o LinkedOf(Tail(s))

\* C15: ME is not a stop condition and MB is not required: the loop runs over
\* every record up to the first parse failure or the end of the block, and the
\* returned chain consists of exactly the successfully parsed non-chunked
\* records, each linked to the next whatever its flags, so a record flagged
\* Last may have a successor.
C15_MessageEndIgnored ==
    Returned =>
      /\ Len(parsed) = Len(WireRecords(block, 0))
      /\ Result = LinkedOf(parsed)
      /\ Len(Result) = Cardinality({k \in 1..Len(parsed) : parsed[k].obj # 0})
      /\ \A k \in 1..(Len(Result) - 1) : heap[Result[k]].next = Result[k + 1]

\* C15 witness: a returned chain whose first record lacks First, carries
\* Last, and has a successor
C15_Witness ==
    /\ Returned
    /\ first # 0
    /\ heap[first].flags = {"Last"}
    /\ heap[first].next # 0

=============================================================================
